---- MODULE Spec2Model ----
(***************************************************************************)
(* Model of the table-reservation API handler                              *)
(* (src/task12/app/lambdas/api_handler/index.js): the two routes that      *)
(* write to the stores, POST /tables (handleCreateTable) and               *)
(* POST /reservations (handleCreateReservation).                           *)
(*                                                                         *)
(* Conventions.                                                            *)
(*  - A JSON string is a TLA+ string where only equality is used (dates,   *)
(*    ids, user names) and a sequence of character codes where the store   *)
(*    orders it (slotTimeStart, slotTimeEnd): DynamoDB compares strings    *)
(*    lexicographically.                                                   *)
(*  - A field that is absent, null or empty is the empty string (<<>> for  *)
(*    a time, 0 for tableNumber): the handler only ever tests these        *)
(*    fields with `!field`, which cannot tell the cases apart.             *)
(*  - uuidv4() is a fresh identifier, named after the store it goes to and *)
(*    its rank among the identifiers drawn for that store's items ("r-2"); *)
(*    one drawn for a rejected put is never seen again.                    *)
(*  - A backend call (scan, put) either succeeds or rejects; a rejected    *)
(*    put writes nothing (a DynamoDB PutItem is atomic for its item), and  *)
(*    a scan returns every matching item in one page.                      *)
(*  - A concurrent execution interleaves requests at their await points:   *)
(*    each action is the code between two awaits, together with the        *)
(*    backend call that ends it.                                           *)
(***************************************************************************)
EXTENDS Integers, Sequences, FiniteSets, TLC

\* ------------------------------------------------------------------ bounds
\* Requests are received while the reservation store holds fewer than
\* MaxReservations items.
MaxReservations == 2
\* Character codes of time strings: 1..MaxChar.
MaxChar == 2

\* Concurrent executions of the handler (Lambda instances).
Procs == {1, 2}
TableNumbers == {1, 2}
\* Tables are created while the table store holds fewer than MaxTables: as
\* many as there are table numbers, so that two tables can share a number
\* and a given id can be put again.
MaxTables == Cardinality(TableNumbers)
Dates == {"2024-06-01", "2024-06-02"}
\* The one-character strings and one two-character string, "1" < "12" < "2":
\* the order of the strings is not the order of their lengths.
Times == {<<c>> : c \in 1..MaxChar} \cup {<<1, MaxChar>>}
GivenIds == {"a"}

VARIABLES
    tables,        \* TABLES_TABLE: the stored table items, one per id
    reservations,  \* RESERVATIONS_TABLE: the stored reservation items, one per id
    pc,            \* per execution: the await the request stands at
    event,         \* per execution: the request being handled
    table,         \* per execution: the local `table` (tableResult.Items[0])
    response,      \* per execution: the response returned
    calls          \* per execution: the backend calls issued, with their outcome

vars == <<tables, reservations, pc, event, table, response, calls>>

\* ------------------------------------------------------------- responses
formatResponse(statusCode, message, reservationId) ==
    [statusCode |-> statusCode, message |-> message, reservationId |-> reservationId]

NoResponse == formatResponse(0, "", "")
Unauthorized == formatResponse(401, "Unauthorized", "")
FieldsRequired ==
    formatResponse(400, "Table number, date, slotTimeStart, and slotTimeEnd are required", "")
TableNotFound == formatResponse(400, "Table not found", "")
AlreadyReserved ==
    formatResponse(400, "Table is already reserved for the selected date and time", "")
InternalServerError == formatResponse(500, "Internal Server Error", "")
ReservationCreated(id) == formatResponse(200, "Reservation created successfully", id)

\* Mutant: an identifier generator that returns the same identifier again.
uuidv4_Fixed(store, items) == store \o "-1"

\* uuidv4() for an item of `store`, an identifier none of its items has.
uuidv4(store, items) ==
    store \o "-" \o ToString(Cardinality({i \in items : i.id \notin GivenIds}) + 1)

\* ---------------------------------------------------------------- events
NoClaims == [present |-> FALSE, username |-> ""]
ClaimsWithoutUser == [present |-> TRUE, username |-> ""]
UserClaims == [present |-> TRUE, username |-> "alice"]

NoBody == [tableNumber |-> 0, date |-> "", slotTimeStart |-> <<>>, slotTimeEnd |-> <<>>]
SampleBody ==
    [tableNumber |-> 1, date |-> "2024-06-01", slotTimeStart |-> <<1>>,
     slotTimeEnd |-> <<1, MaxChar>>]
\* Bodies with the four required fields: every time range (zero-length and
\* inverted ones included) for one table number and date, and the sample
\* range for each other table number and date.
ValidBodies ==
    { [SampleBody EXCEPT !.slotTimeStart = s, !.slotTimeEnd = e] : s, e \in Times }
    \cup { [SampleBody EXCEPT !.tableNumber = n] : n \in TableNumbers }
    \cup { [SampleBody EXCEPT !.date = d] : d \in Dates }
\* A body lacking exactly one of the four required fields.
MissingFieldBodies ==
    { [SampleBody EXCEPT !.tableNumber = 0],
      [SampleBody EXCEPT !.date = ""],
      [SampleBody EXCEPT !.slotTimeStart = <<>>],
      [SampleBody EXCEPT !.slotTimeEnd = <<>>] }

\* event.body is "unparseable" (JSON.parse throws), "null" (JSON.parse
\* yields null, which cannot be destructured) or a JSON "object".
ReservationEvents ==
    { [claims |-> UserClaims, bodyKind |-> "object", body |-> b] :
        b \in ValidBodies \cup MissingFieldBodies }
    \cup { [claims |-> UserClaims, bodyKind |-> k, body |-> NoBody] :
        k \in {"unparseable", "null"} }
    \cup { [claims |-> NoClaims, bodyKind |-> "unparseable", body |-> NoBody] }
    \cup { [claims |-> c, bodyKind |-> "object", body |-> SampleBody] :
        c \in {NoClaims, ClaimsWithoutUser} }

NoEvent == [claims |-> NoClaims, bodyKind |-> "none", body |-> NoBody]
NoTable == [id |-> "", number |-> 0]

\* typed: the typeof checks on number, places and isVip all pass.
\* places, isVip and minOrder are stored as given and never read back by
\* the two handlers, so the stored item is its id and number.
TableEvents ==
    [claims : {UserClaims}, bodyKind : {"object"}, typed : {TRUE},
     id : {""} \cup GivenIds, number : TableNumbers]
    \cup { [claims |-> NoClaims, bodyKind |-> "object", typed |-> TRUE,
            id |-> "", number |-> 1],
           [claims |-> UserClaims, bodyKind |-> "unparseable", typed |-> FALSE,
            id |-> "", number |-> 1],
           [claims |-> UserClaims, bodyKind |-> "object", typed |-> FALSE,
            id |-> "", number |-> 1] }

getUsernameFromToken(ev) ==
    IF ev.claims.present THEN ev.claims.username ELSE ""

\* ------------------------------------------------------- store operations
\* String comparison of the store: a <= b, lexicographic on character codes.
RECURSIVE LexLeq(_, _)
LexLeq(a, b) ==
    IF a = <<>> THEN TRUE
    ELSE IF b = <<>> THEN FALSE
    ELSE IF Head(a) < Head(b) THEN TRUE
    ELSE IF Head(a) > Head(b) THEN FALSE
    ELSE LexLeq(Tail(a), Tail(b))

\* Mutant: BETWEEN read as exclusive of its bounds.
Between_Exclusive(x, lo, hi) == ~LexLeq(x, lo) /\ ~LexLeq(hi, x)

\* x BETWEEN lo AND hi
Between(x, lo, hi) == LexLeq(lo, x) /\ LexLeq(x, hi)

\* dynamodb.put on a table keyed by id: the item replaces the one of its id.
PutItem(items, item) == {i \in items : i.id # item.id} \cup {item}

\* Mutant: the table scan without its filter.
TableFilter_Any(t, tableNumber) == TRUE

\* FilterExpression "#num = :tableNumber"
TableFilter(t, tableNumber) == t.number = tableNumber

TableItems(stored, tableNumber) == {t \in stored : TableFilter(t, tableNumber)}

\* Mutant: only "#time BETWEEN :start AND :end".
ReservationFilter_TimeOnly(r, tableId, date, start, end) ==
    /\ r.tableId = tableId
    /\ r.date = date
    /\ Between(r.time, start, end)

\* Mutant: only ":start BETWEEN #time AND slotTimeEnd".
ReservationFilter_StartOnly(r, tableId, date, start, end) ==
    /\ r.tableId = tableId
    /\ r.date = date
    /\ Between(start, r.time, r.slotTimeEnd)

\* FilterExpression "tableId = :tableId AND #date = :date AND
\*   (#time BETWEEN :start AND :end OR :start BETWEEN #time AND slotTimeEnd)"
ReservationFilter(r, tableId, date, start, end) ==
    /\ r.tableId = tableId
    /\ r.date = date
    /\ \/ Between(r.time, start, end)
       \/ Between(start, r.time, r.slotTimeEnd)

ExistingReservations(stored, tableId, date, start, end) ==
    {r \in stored : ReservationFilter(r, tableId, date, start, end)}

\* Mutant: Items.length > 1.
HasItems_MoreThanOne(items) == Cardinality(items) > 1

\* existingReservations.Items.length > 0
HasItems(items) == Cardinality(items) > 0

\* ------------------------------------------------------------------ Init
Init ==
    /\ tables = {}
    /\ reservations = {}
    /\ pc = [p \in Procs |-> "idle"]
    /\ event = [p \in Procs |-> NoEvent]
    /\ table = [p \in Procs |-> NoTable]
    /\ response = [p \in Procs |-> NoResponse]
    /\ calls = [p \in Procs |-> <<>>]

\* ----------------------------------------------------------- POST /tables
\* What handleCreateTable answers without calling the store (0: it goes on
\* to the put).  The handler has no try of its own: a JSON.parse that throws
\* surfaces as the 500 of the dispatcher `handler`.
CreateTableEarlyStatus(ev) ==
    IF getUsernameFromToken(ev) = "" THEN 401
    ELSE IF ev.bodyKind # "object" THEN 500
    ELSE IF ~ev.typed THEN 400
    ELSE 0

\* handleCreateTable.  putOk: whether dynamodb.put resolves (if not, the
\* dispatcher answers 500 and nothing is written).  The response of this
\* route is not kept in the state: nothing reads it.
handleCreateTable(ev, putOk) ==
    /\ Cardinality(tables) < MaxTables
    /\ UNCHANGED <<reservations, pc, event, table, response, calls>>
    /\ IF CreateTableEarlyStatus(ev) # 0 \/ ~putOk
       THEN UNCHANGED tables
       ELSE LET tableId == IF ev.id = "" THEN uuidv4("t", tables) ELSE ev.id
                tableData == [id |-> tableId, number |-> ev.number]
            IN  tables' = PutItem(tables, tableData)

\* ----------------------------------------------------- POST /reservations
Call(op, ok) == [op |-> op, ok |-> ok]

\* Mutant: the date is not checked.
MissingRequired_NoDate(body) ==
    \/ body.tableNumber = 0
    \/ body.slotTimeStart = <<>>
    \/ body.slotTimeEnd = <<>>

\* !tableNumber || !date || !slotTimeStart || !slotTimeEnd
MissingRequired(body) ==
    \/ body.tableNumber = 0
    \/ body.date = ""
    \/ body.slotTimeStart = <<>>
    \/ body.slotTimeEnd = <<>>

\* Mutant: the body is parsed before the caller is identified.
EarlyResponse_ParseFirst(ev) ==
    IF ev.bodyKind # "object" THEN InternalServerError
    ELSE IF getUsernameFromToken(ev) = "" THEN Unauthorized
    ELSE IF MissingRequired(ev.body) THEN FieldsRequired
    ELSE NoResponse

\* Lines 264-275: what the handler answers before its first backend call,
\* NoResponse when it goes on to scan the tables.
EarlyResponse(ev) ==
    IF getUsernameFromToken(ev) = "" THEN Unauthorized
    ELSE IF ev.bodyKind # "object" THEN InternalServerError
    ELSE IF MissingRequired(ev.body) THEN FieldsRequired
    ELSE NoResponse

\* The `reservation` item of lines 312-323 (clientName and phoneNumber are
\* copied from the body and createdAt is the clock: none is read again).
Reservation(id, tbl, ev) ==
    [id |-> id, tableId |-> tbl.id, tableNumber |-> tbl.number,
     username |-> getUsernameFromToken(ev), date |-> ev.body.date,
     time |-> ev.body.slotTimeStart, slotTimeEnd |-> ev.body.slotTimeEnd]

Finish(p, r) ==
    /\ pc' = [pc EXCEPT ![p] = "done"]
    /\ response' = [response EXCEPT ![p] = r]

\* Request received: identity, JSON.parse, required fields; then the table
\* scan is issued.
CreateReservation_Receive(p, ev) ==
    /\ pc[p] \in {"idle", "done"}
    /\ Cardinality(reservations) < MaxReservations
    /\ event' = [event EXCEPT ![p] = ev]
    /\ calls' = [calls EXCEPT ![p] = <<>>]
    /\ table' = [table EXCEPT ![p] = NoTable]
    /\ response' = [response EXCEPT ![p] = EarlyResponse(ev)]
    /\ pc' = [pc EXCEPT ![p] =
                 IF EarlyResponse(ev) = NoResponse THEN "scanTables" ELSE "done"]
    /\ UNCHANGED <<tables, reservations>>

\* dynamodb.scan(tableParams) returns; Items[0] is any of the matching
\* items (a scan returns them in no specified order).
CreateReservation_TableScan(p, ok) ==
    /\ pc[p] = "scanTables"
    /\ calls' = [calls EXCEPT ![p] = Append(@, Call("scanTables", ok))]
    /\ UNCHANGED <<tables, reservations, event>>
    /\ LET items == TableItems(tables, event[p].body.tableNumber)
       IN  IF ~ok
           THEN Finish(p, InternalServerError) /\ UNCHANGED table
           ELSE IF Cardinality(items) = 0
           THEN Finish(p, TableNotFound) /\ UNCHANGED table
           ELSE /\ \E t \in items : table' = [table EXCEPT ![p] = t]
                /\ pc' = [pc EXCEPT ![p] = "scanReservations"]
                /\ UNCHANGED response

\* dynamodb.scan(reservationCheckParams) returns.
CreateReservation_ReservationScan(p, ok) ==
    /\ pc[p] = "scanReservations"
    /\ calls' = [calls EXCEPT ![p] = Append(@, Call("scanReservations", ok))]
    /\ UNCHANGED <<tables, reservations, event, table>>
    /\ LET body == event[p].body
           items == ExistingReservations(reservations, table[p].id, body.date,
                                         body.slotTimeStart, body.slotTimeEnd)
       IN  IF ~ok
           THEN Finish(p, InternalServerError)
           ELSE IF HasItems(items)
           THEN Finish(p, AlreadyReserved)
           ELSE /\ pc' = [pc EXCEPT ![p] = "putReservation"]
                /\ UNCHANGED response

\* Mutant: a conditional put, which re-checks the slot when it writes.
CreateReservation_Put_Conditional(p, ok) ==
    /\ pc[p] = "putReservation"
    /\ calls' = [calls EXCEPT ![p] = Append(@, Call("putReservation", ok))]
    /\ UNCHANGED <<tables, event, table>>
    /\ LET reservation == Reservation(uuidv4("r", reservations), table[p], event[p])
           taken == ExistingReservations(reservations, table[p].id, event[p].body.date,
                        event[p].body.slotTimeStart, event[p].body.slotTimeEnd)
       IN  IF ok /\ taken = {}
           THEN /\ reservations' = PutItem(reservations, reservation)
                /\ Finish(p, ReservationCreated(reservation.id))
           ELSE /\ UNCHANGED reservations
                /\ Finish(p, IF ok THEN AlreadyReserved ELSE InternalServerError)

\* Mutant: a put that rejects after the item was written.
CreateReservation_Put_WriteThenFail(p, ok) ==
    /\ pc[p] = "putReservation"
    /\ calls' = [calls EXCEPT ![p] = Append(@, Call("putReservation", ok))]
    /\ UNCHANGED <<tables, event, table>>
    /\ LET reservation == Reservation(uuidv4("r", reservations), table[p], event[p])
       IN  /\ reservations' = PutItem(reservations, reservation)
           /\ Finish(p, IF ok THEN ReservationCreated(reservation.id)
                              ELSE InternalServerError)

\* dynamodb.put(reservationParams) returns.  The id was drawn by uuidv4()
\* when the item was built; it is fresh whenever it is drawn.
CreateReservation_Put(p, ok) ==
    /\ pc[p] = "putReservation"
    /\ calls' = [calls EXCEPT ![p] = Append(@, Call("putReservation", ok))]
    /\ UNCHANGED <<tables, event, table>>
    /\ LET reservation == Reservation(uuidv4("r", reservations), table[p], event[p])
       IN  IF ok
           THEN /\ reservations' = PutItem(reservations, reservation)
                /\ Finish(p, ReservationCreated(reservation.id))
           ELSE /\ UNCHANGED reservations
                /\ Finish(p, InternalServerError)

\* -------------------------------------------------------- specifications
\* Concurrent executions: each takes one request, which may be received
\* while the others are in flight.
Next ==
    \/ \E ev \in TableEvents, ok \in BOOLEAN : handleCreateTable(ev, ok)
    \/ \E p \in Procs, ev \in ReservationEvents :
           pc[p] = "idle" /\ CreateReservation_Receive(p, ev)
    \/ \E p \in Procs, ok \in BOOLEAN : CreateReservation_TableScan(p, ok)
    \/ \E p \in Procs, ok \in BOOLEAN : CreateReservation_ReservationScan(p, ok)
    \/ \E p \in Procs, ok \in BOOLEAN : CreateReservation_Put(p, ok)

Spec == Init /\ [][Next]_vars

\* Create-reservation requests handled one at a time: one execution takes
\* every request, each after the one before it was answered.
NextSeq ==
    \/ \E ev \in TableEvents, ok \in BOOLEAN : handleCreateTable(ev, ok)
    \/ \E ev \in ReservationEvents : CreateReservation_Receive(1, ev)
    \/ \E ok \in BOOLEAN : CreateReservation_TableScan(1, ok)
    \/ \E ok \in BOOLEAN : CreateReservation_ReservationScan(1, ok)
    \/ \E ok \in BOOLEAN : CreateReservation_Put(1, ok)

SpecSeq == Init /\ [][NextSeq]_vars

\* Requests handled one at a time by two executions: execution 2 takes one
\* authenticated request with all four fields and keeps its answer,
\* execution 1 takes every other request, those before it and those after it.
NextSerial ==
    \/ \E ev \in TableEvents, ok \in BOOLEAN :
           (\A p \in Procs : pc[p] \in {"idle", "done"}) /\ handleCreateTable(ev, ok)
    \/ \E ev \in ReservationEvents :
           pc[2] \in {"idle", "done"} /\ CreateReservation_Receive(1, ev)
    \/ \E b \in ValidBodies :
           pc[2] = "idle" /\ pc[1] \in {"idle", "done"}
               /\ CreateReservation_Receive(2,
                      [claims |-> UserClaims, bodyKind |-> "object", body |-> b])
    \/ \E p \in Procs, ok \in BOOLEAN : CreateReservation_TableScan(p, ok)
    \/ \E p \in Procs, ok \in BOOLEAN : CreateReservation_ReservationScan(p, ok)
    \/ \E p \in Procs, ok \in BOOLEAN : CreateReservation_Put(p, ok)

SpecSerial == Init /\ [][NextSerial]_vars

\* ---------------------------------------------------------------- claims
\* The overlap predicate of two time ranges, in the order of the store.
Overlap(aStart, aEnd, bStart, bEnd) == LexLeq(aStart, bEnd) /\ LexLeq(bStart, aEnd)

\* start <= end
WellFormed(start, end) == LexLeq(start, end)

StrictlyBefore(a, b) == LexLeq(a, b) /\ a # b

\* The stored reservations of the table and date of p's request.
SameSlot(p) ==
    {r \in reservations : r.tableId = table[p].id /\ r.date = event[p].body.date}

\* Some stored reservation of p's table and date satisfies the overlap
\* predicate with p's candidate.
PredicateConflict(p) ==
    \E r \in SameSlot(p) :
        Overlap(r.time, r.slotTimeEnd,
                event[p].body.slotTimeStart, event[p].body.slotTimeEnd)

Authenticated(ev) == ev.claims.present /\ ev.claims.username # ""

LastCall(cs) == cs[Len(cs)]

\* In this step a backend call of p returned.
CallReturned(p) == Len(calls'[p]) = Len(calls[p]) + 1

\* In this step the named call of p returned successfully.
Returned(p, op) == CallReturned(p) /\ LastCall(calls'[p]) = Call(op, TRUE)

ThreeCalls ==
    <<Call("scanTables", TRUE), Call("scanReservations", TRUE),
      Call("putReservation", TRUE)>>

\* C1: handled one at a time, create-reservation requests never leave two
\* stored reservations of the same table and date that satisfy the overlap
\* predicate, whatever their ranges (zero-length and inverted included).
C1_NoOverlappingReservations ==
    \A a, b \in reservations :
        (a.id # b.id /\ a.tableId = b.tableId /\ a.date = b.date)
            => ~Overlap(a.time, a.slotTimeEnd, b.time, b.slotTimeEnd)

\* Two reservations of one table and date are stored, one of them inverted.
C1_Witness ==
    \E a, b \in reservations :
        /\ a.id # b.id /\ a.tableId = b.tableId /\ a.date = b.date
        /\ ~WellFormed(a.time, a.slotTimeEnd)

\* C2, as stated: the conflict scan rejects the candidate exactly when some
\* stored reservation of its table and date satisfies the overlap predicate,
\* for all ranges.
C2_RejectsIffPredicate ==
    [][\A p \in Procs :
          Returned(p, "scanReservations")
              => ((response'[p] = AlreadyReserved) <=> PredicateConflict(p))]_vars

\* C2, amended: a candidate that satisfies the overlap predicate with a stored
\* reservation of its table and date is always rejected; and when the
\* candidate and every stored reservation of its table and date have
\* start <= end, a rejected candidate satisfies the predicate with one of them.
C2_RejectsIffPredicateWellFormed ==
    [][\A p \in Procs :
          Returned(p, "scanReservations")
              => /\ PredicateConflict(p) => response'[p] = AlreadyReserved
                 /\ ( /\ WellFormed(event[p].body.slotTimeStart, event[p].body.slotTimeEnd)
                      /\ \A r \in SameSlot(p) : WellFormed(r.time, r.slotTimeEnd)
                      /\ response'[p] = AlreadyReserved )
                    => PredicateConflict(p)]_vars

\* A well-formed candidate was rejected against well-formed reservations, one
\* of which it overlaps.
C2_Witness ==
    \E p \in Procs :
        /\ pc[p] = "done" /\ response[p] = AlreadyReserved
        /\ WellFormed(event[p].body.slotTimeStart, event[p].body.slotTimeEnd)
        /\ \A r \in SameSlot(p) : WellFormed(r.time, r.slotTimeEnd)
        /\ PredicateConflict(p)

\* The candidate of p starts where a stored reservation of its table and date
\* ends, or ends where one starts; wellFormed: both ranges have start <= end.
Touches(p, wellFormed) ==
    \E r \in SameSlot(p) :
        /\ \/ event[p].body.slotTimeStart = r.slotTimeEnd
           \/ event[p].body.slotTimeEnd = r.time
        /\ wellFormed =>
              /\ WellFormed(r.time, r.slotTimeEnd)
              /\ WellFormed(event[p].body.slotTimeStart, event[p].body.slotTimeEnd)

Rejected(p) ==
    /\ response'[p] = AlreadyReserved
    /\ pc'[p] = "done"
    /\ reservations' = reservations

\* C3, as stated: a candidate that touches a stored reservation of its table
\* and date at a boundary instant is rejected and not persisted.
C3_TouchingRejected ==
    [][\A p \in Procs :
          (Returned(p, "scanReservations") /\ Touches(p, FALSE)) => Rejected(p)]_vars

\* C3, amended: a candidate with start <= end that touches, at a boundary
\* instant, a stored reservation of its table and date with start <= end is
\* rejected and not persisted.
C3_WellFormedTouchingRejected ==
    [][\A p \in Procs :
          (Returned(p, "scanReservations") /\ Touches(p, TRUE)) => Rejected(p)]_vars

\* A candidate of positive length was rejected that starts at the end of a
\* stored reservation of positive length, the only one of its table and date.
C3_Witness ==
    \E p \in Procs :
        /\ pc[p] = "done" /\ response[p] = AlreadyReserved
        /\ calls[p] = <<Call("scanTables", TRUE), Call("scanReservations", TRUE)>>
        /\ Cardinality(SameSlot(p)) = 1
        /\ \E r \in SameSlot(p) :
              /\ StrictlyBefore(r.time, r.slotTimeEnd)
              /\ r.slotTimeEnd = event[p].body.slotTimeStart
              /\ StrictlyBefore(event[p].body.slotTimeStart, event[p].body.slotTimeEnd)

\* q was answered 200 for a range that overlaps the candidate of p, on the
\* table and date of p.
Competes(p, q) ==
    /\ p # q
    /\ pc[q] = "done" /\ response[q].statusCode = 200
    /\ table[q].id = table[p].id
    /\ event[q].body.date = event[p].body.date
    /\ Overlap(event[p].body.slotTimeStart, event[p].body.slotTimeEnd,
               event[q].body.slotTimeStart, event[q].body.slotTimeEnd)

\* The reservations answered to p and q are both stored, for one table and
\* date, and overlap.
DoubleBooked(p, q) ==
    \E a, b \in reservations :
        /\ a.id = response[p].reservationId /\ b.id = response[q].reservationId
        /\ a.id # b.id /\ a.tableId = b.tableId /\ a.date = b.date
        /\ Overlap(a.time, a.slotTimeEnd, b.time, b.slotTimeEnd)

\* C4: the put is not conditional.  When p has passed its conflict scan and
\* a concurrent request q for the same table and date and an overlapping range
\* has been written and answered 200 meanwhile, the put of p (if the store
\* accepts it) is answered 200 too and the store holds both reservations.
C4_PutAfterScanDoubleBooks ==
    [][\A p, q \in Procs :
          (pc[p] = "putReservation" /\ Competes(p, q) /\ Returned(p, "putReservation"))
              => (response'[p].statusCode = 200 /\ DoubleBooked(p, q)')]_vars

\* Both requests made their three calls, were answered 200, and the store
\* holds their two overlapping reservations.
C4_Witness ==
    \E p, q \in Procs :
        /\ p # q
        /\ pc[p] = "done" /\ pc[q] = "done"
        /\ calls[p] = ThreeCalls /\ calls[q] = ThreeCalls
        /\ response[p].statusCode = 200 /\ response[q].statusCode = 200
        /\ DoubleBooked(p, q)

\* C5: when the conflict scan returns an item, the request is answered 400
\* "Table is already reserved for the selected date and time", its calls are
\* the two scans and no put, and no scan writes to either store.
C5_ConflictWritesNothing ==
    [][\A p \in Procs :
          /\ ( /\ Returned(p, "scanReservations")
               /\ \E r \in reservations :
                     ReservationFilter(r, table[p].id, event[p].body.date,
                         event[p].body.slotTimeStart, event[p].body.slotTimeEnd) )
             => /\ response'[p] = formatResponse(400,
                       "Table is already reserved for the selected date and time", "")
                /\ pc'[p] = "done"
                /\ calls'[p] = <<Call("scanTables", TRUE), Call("scanReservations", TRUE)>>
          /\ (CallReturned(p) /\ LastCall(calls'[p]).op # "putReservation")
             => (reservations' = reservations /\ tables' = tables)]_vars

\* A request was answered with the conflict message after its two scans.
C5_Witness ==
    \E p \in Procs :
        /\ pc[p] = "done" /\ response[p] = AlreadyReserved
        /\ calls[p] = <<Call("scanTables", TRUE), Call("scanReservations", TRUE)>>
        /\ SameSlot(p) # {}

\* The item is a whole reservation of p's request.
FullRecord(r, p) ==
    /\ r.id # "" /\ r.tableId = table[p].id /\ r.tableNumber = table[p].number
    /\ r.username = event[p].claims.username /\ r.username # ""
    /\ r.date = event[p].body.date /\ r.date # ""
    /\ r.time = event[p].body.slotTimeStart /\ r.time # <<>>
    /\ r.slotTimeEnd = event[p].body.slotTimeEnd /\ r.slotTimeEnd # <<>>

\* C6: a backend call that fails ends the request with 500 "Internal Server
\* Error" and leaves the reservation store as it was; no call is issued
\* twice; and a step either leaves the reservation store unchanged or adds
\* one whole reservation record.
C6_FailureIs500AndAtomic ==
    [][\A p \in Procs :
          /\ (CallReturned(p) /\ ~LastCall(calls'[p]).ok)
             => /\ response'[p] = formatResponse(500, "Internal Server Error", "")
                /\ pc'[p] = "done"
                /\ reservations' = reservations
          /\ \A i, j \in 1..Len(calls'[p]) : calls'[p][i].op = calls'[p][j].op => i = j
          /\ CallReturned(p)
             => \/ reservations' = reservations
                \/ \E r \in reservations' :
                      /\ r \notin reservations
                      /\ reservations' = reservations \cup {r}
                      /\ FullRecord(r, p)]_vars

\* The put of a request failed, and the request was answered 500.
C6_Witness ==
    \E p \in Procs :
        /\ pc[p] = "done" /\ response[p] = InternalServerError
        /\ Len(calls[p]) = 3 /\ LastCall(calls[p]) = Call("putReservation", FALSE)

\* C7: an authenticated create-reservation request with a malformed body is
\* answered 400, never 500.
C7_MalformedBodyIs400 ==
    \A p \in Procs :
        ( /\ pc[p] = "done"
          /\ Authenticated(event[p])
          /\ event[p].bodyKind \in {"unparseable", "null"} )
            => response[p].statusCode = 400

\* C8: an authenticated request whose body lacks one of tableNumber, date,
\* slotTimeStart, slotTimeEnd is answered 400 with the required-fields message
\* and makes no store call.
C8_MissingFieldNoStoreCall ==
    \A p \in Procs :
        ( /\ Authenticated(event[p])
          /\ event[p].bodyKind = "object"
          /\ \/ event[p].body.tableNumber = 0
             \/ event[p].body.date = ""
             \/ event[p].body.slotTimeStart = <<>>
             \/ event[p].body.slotTimeEnd = <<>> )
            => /\ pc[p] = "done"
               /\ response[p] = formatResponse(400,
                      "Table number, date, slotTimeStart, and slotTimeEnd are required", "")
               /\ calls[p] = <<>>

\* A request lacking only its date was answered.
C8_Witness ==
    \E p \in Procs :
        /\ pc[p] = "done" /\ response[p] = FieldsRequired /\ calls[p] = <<>>
        /\ Authenticated(event[p])
        /\ event[p].body = [SampleBody EXCEPT !.date = ""]

\* C9: a request without a caller identity is answered 401 "Unauthorized"
\* whatever its body, with no store call, and every stored reservation has an
\* owning user.
C9_UnauthorizedFirst ==
    /\ \A p \in Procs :
          (event[p] # NoEvent /\ ~Authenticated(event[p]))
              => /\ pc[p] = "done"
                 /\ response[p] = formatResponse(401, "Unauthorized", "")
                 /\ calls[p] = <<>>
    /\ \A r \in reservations : r.username # ""

\* A request with no claims and an unparseable body was answered 401, while
\* a reservation is stored.
C9_Witness ==
    /\ reservations # {}
    /\ \E p \in Procs :
          /\ pc[p] = "done" /\ response[p] = Unauthorized
          /\ ~event[p].claims.present /\ event[p].bodyKind = "unparseable"

\* C10: when the table scan returns and no stored table has the requested
\* number, the request is answered 400 "Table not found", its only call is
\* that scan, and the reservation store is unchanged.
C10_TableNotFound ==
    [][\A p \in Procs :
          ( /\ Returned(p, "scanTables")
            /\ \A t \in tables : t.number # event[p].body.tableNumber )
              => /\ response'[p] = formatResponse(400, "Table not found", "")
                 /\ pc'[p] = "done"
                 /\ calls'[p] = <<Call("scanTables", TRUE)>>
                 /\ reservations' = reservations]_vars

\* A request was answered "Table not found" while a table with another
\* number is stored.
C10_Witness ==
    \E p \in Procs :
        /\ pc[p] = "done" /\ response[p] = TableNotFound
        /\ calls[p] = <<Call("scanTables", TRUE)>>
        /\ tables # {}
        /\ \A t \in tables : t.number # event[p].body.tableNumber

\* Execution 1 is answered in this step, none of its backend calls having
\* failed.
AnsweredWithoutFailure(p) ==
    /\ pc[p] # "done" /\ pc'[p] = "done"
    /\ \A i \in 1..Len(calls'[p]) : calls'[p][i].ok

\* C11: once a request was rejected with the conflict response (the request
\* of execution 2), the same request submitted again later, after any further
\* requests, is rejected with the conflict response again.
C11_RejectedAgain ==
    [][( /\ pc[2] = "done" /\ response[2] = AlreadyReserved
         /\ event[1] = event[2]
         /\ AnsweredWithoutFailure(1) )
           => response'[1] = AlreadyReserved]_vars

\* What does hold: the request is rejected again whenever it resolves to the
\* table it resolved to before.
C11_RejectedAgainOnSameTable ==
    [][( /\ pc[2] = "done" /\ response[2] = AlreadyReserved
         /\ event[1] = event[2]
         /\ table[1].id = table[2].id
         /\ AnsweredWithoutFailure(1) )
           => response'[1] = AlreadyReserved]_vars

\* In this step the reservation scan of p returned successfully and no
\* stored reservation passed its filter.
ScanFoundNothing(p) ==
    /\ pc[p] = "scanReservations" /\ Returned(p, "scanReservations")
    /\ \A r \in reservations :
           ~ReservationFilter(r, table[p].id, event[p].body.date,
                              event[p].body.slotTimeStart, event[p].body.slotTimeEnd)

\* In this step the put of p returned.
PutReturned(p) == pc[p] = "putReservation" /\ pc'[p] = "done"

\* r is the one record this step added for p: new, with an identifier no
\* stored reservation had, every stored reservation kept as it was.
AddedRecord(r, p) ==
    /\ r \notin reservations
    /\ \A old \in reservations : old.id # r.id
    /\ reservations' = reservations \cup {r}
    /\ FullRecord(r, p)

\* C12 as stated: a request whose conflict scan returned nothing is answered
\* 200 with one new record stored.
C12_PutAnswers200 ==
    [][\A p \in Procs : PutReturned(p) =>
          /\ response'[p].statusCode = 200
          /\ \E r \in reservations' : AddedRecord(r, p)]_vars

\* C12: an authenticated, valid request that resolved to a table and whose
\* conflict scan returned nothing goes on to exactly one put, issued after
\* both scans; when that put succeeds it has added one new record with a
\* fresh identifier, the resolved tableId, the request's date, start, end and
\* the caller's username, the previously stored reservations are unchanged,
\* and the answer is 200 "Reservation created successfully" with that
\* record's identifier; when it fails nothing is stored and the answer is 500.
C12_PutOnceThenCreated ==
    [][\A p \in Procs :
          /\ ScanFoundNothing(p) =>
                 /\ pc'[p] = "putReservation"
                 /\ reservations' = reservations
                 /\ calls'[p] = <<Call("scanTables", TRUE), Call("scanReservations", TRUE)>>
          /\ PutReturned(p) =>
                 /\ Authenticated(event[p]) /\ ~MissingRequired(event[p].body)
                 /\ \E ok \in BOOLEAN :
                        calls'[p] = <<Call("scanTables", TRUE),
                                      Call("scanReservations", TRUE),
                                      Call("putReservation", ok)>>
                 /\ IF LastCall(calls'[p]).ok
                    THEN \E r \in reservations' :
                             /\ AddedRecord(r, p)
                             /\ response'[p] =
                                    formatResponse(200, "Reservation created successfully", r.id)
                    ELSE /\ reservations' = reservations
                         /\ response'[p] = InternalServerError]_vars

\* A request was answered 200 after its three calls, its record is stored
\* under the returned identifier next to a reservation stored before it.
C12_Witness ==
    \E p \in Procs :
        /\ pc[p] = "done" /\ calls[p] = ThreeCalls
        /\ response[p].statusCode = 200
        /\ \E r \in reservations :
               /\ r.id = response[p].reservationId /\ FullRecord(r, p)
               /\ reservations \ {r} # {}

\* C13: no two stored tables have the same table number, so that a table
\* number resolves to at most one table.
C13_UniqueTableNumbers ==
    /\ \A t1, t2 \in tables : t1.number = t2.number => t1 = t2
    /\ \A n \in TableNumbers : Cardinality(TableItems(tables, n)) <= 1

\* The tableId of every stored reservation is the id of a stored table.
ReservationsHaveTables ==
    \A r \in reservations : \E t \in tables : t.id = r.tableId

\* C14: every stored reservation's tableId is the id of a stored table, and
\* its tableNumber is the number that table has now.
C14_ReservationMatchesTable ==
    \A r \in reservations :
        \E t \in tables : t.id = r.tableId /\ t.number = r.tableNumber

====
